---- MODULE Spec2Model ----
(***************************************************************************)
(* The response-handling core of the ENSIME client for Sublime Text:       *)
(* ProtocolHandler (ensimesublime/protocol.py) and the symbol formatting   *)
(* functions (ensimesublime/symbol_format.py).                             *)
(*                                                                         *)
(* A handler is an operator from the state before the call to the state    *)
(* after it.  The state record holds the fields of the handler object, the *)
(* host's queue of scheduled callbacks, and fx, the calls the current step *)
(* made to its collaborators (logger, status bar, request layer, patch     *)
(* library, editor) together with the exception it let escape.             *)
(***************************************************************************)
EXTENDS Integers, Sequences, FiniteSets, TLC

VARIABLES server_version,   \* self.server_version
          indexer_ready,    \* self.indexer_ready
          analyzer_ready,   \* self.analyzer_ready
          notes,            \* self.env.notes_storage
          call_options,     \* self.call_options: call id -> options dict
          current_prefix,   \* self.env.editor.current_prefix
          suggestions,      \* self.env.editor.suggestions
          timers,           \* callbacks handed to sublime.set_timeout, oldest first
          panels,           \* quick panels on screen, each with its on_select closure
          fx,               \* what the last step did to its collaborators
          dispatched,       \* number of messages handed to handle_incoming_response
          connection_infos, \* number of ConnectionInfo messages among them
          issued            \* the call ids the request layer has used

vars == <<server_version, indexer_ready, analyzer_ready, notes, call_options,
          current_prefix, suggestions, timers, panels, fx, dispatched, connection_infos, issued>>

\* Bound of the model: the messages the transport delivers in one run.
MaxMsgs == 2

\* Bound of the completion responses delivered in one run.
MaxCompletions == 4

\* Bounds of the signatures formatted: parameter sections of a method type,
\* parameters of a section.
MaxSections == 3
MaxParams == 3

CallIds == {1, 2}
ProcedureIds == {1, 2}

\* ------------------------------------------------------------------ state

State == [server_version |-> server_version, indexer_ready |-> indexer_ready,
          analyzer_ready |-> analyzer_ready, notes |-> notes,
          call_options |-> call_options, current_prefix |-> current_prefix,
          suggestions |-> suggestions, timers |-> timers, panels |-> panels,
          fx |-> fx]

\* The record of a step that has not called anything yet.
NoFx(op, payload, call_id) ==
    [op |-> op, typehint |-> payload.typehint, payload |-> payload, call_id |-> call_id,
     handler |-> "None", signalled |-> "none", raised |-> "none", status |-> <<>>, error |-> <<>>, log |-> <<>>,
     sent |-> <<>>, parsed |-> <<>>, applied |-> <<>>, editor |-> <<>>,
     browser |-> <<>>, choice |-> -1, asked |-> <<>>]

\* ---------------------------------------------------------- collaborators

logger(s, level, msg) == [s EXCEPT !.fx.log = Append(@, <<level>> \o msg)]

status_message(s, msg) == [s EXCEPT !.fx.status = Append(@, msg)]

error_message(s, msg) == [s EXCEPT !.fx.error = Append(@, msg)]

set_timeout(s, callback, delay) ==
    [s EXCEPT !.timers = Append(@, [cb |-> callback, delay |-> delay])]

run_in(s, request) == [s EXCEPT !.fx.sent = Append(@, request)]

\* raise: fx.signalled keeps the exception when a caller catches it.
raise(s, exception) == [s EXCEPT !.fx.raised = exception, !.fx.signalled = exception]

\* dict.get(key, default)
get(d, key, default) == IF key \in DOMAIN d THEN d[key] ELSE default

\* The files of the views the window has open.
window_views == <<"A.scala", "B.scala">>

\* self.refactorings: procedure id -> absolute file path (owned by the request layer).
refactorings == [p \in ProcedureIds |-> IF p = 1 THEN "A.scala" ELSE "B.scala"]

\* ------------------------------------------------------- lifecycle handlers

handle_connection_info_once(s, call_id, payload) ==
    IF s.server_version = "unknown"
    THEN logger([s EXCEPT !.server_version = get(payload, "version", "unknown")],
                "info", <<"Connected to the ensime server">>)
    ELSE logger(s, "info", <<"Connected to the ensime server">>)

handle_connection_info(s, call_id, payload) ==
    LET s1 == [s EXCEPT !.server_version = get(payload, "version", "unknown")]
    IN  logger(s1, "info", <<"Connected to the ensime server", s1.server_version>>)

handle_background_message(s, call_id, payload) ==
    logger(s, "info", <<get(payload, "code", "unknown code"),
                        get(payload, "detail", "no detail")>>)

handle_indexer_ready_toggle(s, call_id, payload) ==
    logger([s EXCEPT !.indexer_ready = ~@], "info", <<"Indexer is ready">>)

handle_indexer_ready(s, call_id, payload) ==
    logger([s EXCEPT !.indexer_ready = TRUE], "info", <<"Indexer is ready">>)

handle_analyzer_ready(s, call_id, payload) ==
    LET s1 == logger([s EXCEPT !.analyzer_ready = TRUE], "info", <<"Analyzer is ready">>)
        files == window_views
    IN  run_in(s1, [req |-> "TypeCheckFilesReq", files |-> files, async |-> TRUE])

\* notes.Note: the note object built from one entry of the payload.
Note(n) == [note |-> n]

map_Note(ns) == [i \in 1..Len(ns) |-> Note(ns[i])]

\* NotesStorage.append and NotesStorage.clear.
notes_storage_append(s, ns) == [s EXCEPT !.notes = @ \o ns]

notes_storage_clear(s) == [s EXCEPT !.notes = <<>>]

handle_scala_notes_replace(s, call_id, payload) ==
    [s EXCEPT !.notes = map_Note(payload.notes)]

handle_scala_notes(s, call_id, payload) ==
    notes_storage_append(s, map_Note(payload.notes))

handle_java_notes(s, call_id, payload) == s

handle_clear_scala_notes(s, call_id, payload) == notes_storage_clear(s)

handle_typecheck_complete(s, call_id, payload) ==
    logger([s EXCEPT !.fx.editor = Append(@, <<"redraw_all_highlights">>)],
           "info", <<"Handled FullTypecheckCompleteEvent">>)

handle_debug_vm_error(s, call_id, payload) == raise(s, "NotImplementedError")

handle_package_info(s, call_id, payload) == raise(s, "NotImplementedError")

\* ------------------------------------------------------------- strings

\* A string is the sequence of its characters; CharOrder lists the characters
\* in use by increasing code point, the order Python compares strings by.
CharOrder == <<"$", ".", "A", "B", "L", "R", "a", "b", "c", "d", "i", "j", "l", "m",
              "n", "o", "s", "t", "u", "v">>

Ord(c) == CHOOSE i \in 1..Len(CharOrder) : CharOrder[i] = c

\* str.replace(old, new) for single characters.
replace(str, old, new) == [i \in 1..Len(str) |-> IF str[i] = old THEN new ELSE str[i]]

\* a < b on strings.
str_less(a, b) ==
    \E k \in 0..Len(a) :
        /\ k <= Len(b)
        /\ \A i \in 1..k : a[i] = b[i]
        /\ \/ k = Len(a) /\ k < Len(b)
           \/ k < Len(a) /\ k < Len(b) /\ Ord(a[k + 1]) < Ord(b[k + 1])

\* set(list)
set(list) == {list[i] : i \in 1..Len(list)}

\* list(sorted(set_of_strings))
RECURSIVE sorted(_)
sorted(S) ==
    IF S = {} THEN <<>>
    ELSE LET m == CHOOSE x \in S : \A y \in S \ {x} : str_less(x, y)
         IN  <<m>> \o sorted(S \ {m})

\* ------------------------------------------------------ import suggestions

\* The two nested loops of handle_import_suggestions: every suggestion's name,
\* with '$' replaced by '.', in payload order.
RECURSIVE import_names(_)
import_names(symLists) ==
    IF symLists = <<>> THEN <<>>
    ELSE [i \in 1..Len(Head(symLists)) |-> replace(Head(symLists)[i].name, "$", ".")]
         \o import_names(Tail(symLists))

\* The closure do_refactor of handle_import_suggestions, called by the quick
\* panel with the index the user chose (-1: cancelled).
do_refactor(s, call_id, imports, choice) ==
    IF choice > -1
    THEN IF call_id \notin DOMAIN s.call_options
         THEN raise(s, "KeyError")
         ELSE LET file_name == get(s.call_options[call_id], "file_name", "None")
              IN  run_in(s, [req |-> "AddImportRefactorDesc", file_name |-> file_name,
                             import |-> imports[choice + 1], async |-> TRUE])
    ELSE s

handle_import_suggestions(s, call_id, payload) ==
    LET imports == sorted(set(import_names(payload.symLists)))
    IN  IF imports = <<>>
        THEN error_message(s, <<"No import suggestions found.">>)
        ELSE set_timeout(s, [fn |-> "show_quick_panel", items |-> imports,
                             on_select |-> "do_refactor", call_id |-> call_id], 0)

\* ---------------------------------------------------------- string response

\* str.startswith('http'), on a url given as its sequence of parts.
startswith_http(text) == Len(text) > 0 /\ text[1] = "http"

\* gconfig['localhost'].format(port, url), with port = self.ensime.http_port().
localhost_url(text) == <<"http", "://127.0.0.1:", "http_port", "/">> \o text

\* dict without one key: del d[key]
del(d, key) == [k \in DOMAIN d \ {key} |-> d[k]]

handle_string_response_keep(s, call_id, payload) ==
    LET url == IF startswith_http(payload.text) THEN payload.text
               ELSE localhost_url(payload.text)
    IN  IF /\ call_id \in DOMAIN s.call_options
           /\ DOMAIN s.call_options[call_id] # {}
           /\ get(s.call_options[call_id], "browse", FALSE)
        THEN set_timeout(s, [fn |-> "_browse_doc", url |-> url], 0)
        ELSE s

handle_string_response(s, call_id, payload) ==
    LET url == IF startswith_http(payload.text) THEN payload.text
               ELSE localhost_url(payload.text)
    IN  IF /\ call_id \in DOMAIN s.call_options           \* options = call_options.get(call_id)
           /\ DOMAIN s.call_options[call_id] # {}        \* a dict is true when not empty
           /\ get(s.call_options[call_id], "browse", FALSE)
        THEN LET s1 == set_timeout(s, [fn |-> "_browse_doc", url |-> url], 0)
             IN  [s1 EXCEPT !.call_options = del(@, call_id)]
        ELSE s

\* webbrowser.open(url), whose outcome ("opened", "refused" or "Error") is the
\* host's.
_browse_doc(s, url, outcome) ==
    LET s1 == [s EXCEPT !.fx.browser = Append(@, url)]
    IN  CASE outcome = "opened" -> logger(s1, "info", <<"opened">>)
          [] outcome = "refused" -> s1
          [] OTHER -> error_message(logger(s1, "exception", <<"_browse_doc: webbrowser error">>),
                                    <<"manual_doc">> \o url)

\* ----------------------------------------------------------------- refactor

\* The diff files on disk: the hunks patch.fromfile reads from each (none from
\* a file that does not parse) and whether PatchSet.apply succeeds on them.
DiffFiles == {"ok.diff", "reject.diff", "garbage.diff"}

fromfile(diff_file) ==
    CASE diff_file = "ok.diff" -> <<"hunk1", "hunk2">>
      [] diff_file = "reject.diff" -> <<"hunk3">>
      [] OTHER -> <<>>

patch_set_apply(patch_set, strip, root) == patch_set = fromfile("ok.diff")

\* paths.root_as_str_from_abspath
root_as_str_from_abspath(file) == <<"root of", file>>

supported_refactorings == {"AddImport", "OrganizeImports", "Rename", "InlineLocal"}

apply_refactor_unchecked(s, call_id, payload) ==
    IF payload.refactorType.typehint \in supported_refactorings
    THEN LET diff_file == payload.diff
             s1 == [s EXCEPT !.fx.parsed = Append(@, diff_file)]
             file == refactorings[payload.procedureId]
             s2 == [s1 EXCEPT !.fx.applied = Append(@, <<diff_file>>)]
         IN  status_message(set_timeout(s2, [fn |-> "reload_file", file |-> file], 0),
                            <<"Refactoring succeeded">>)
    ELSE raise(s, "UnboundLocalError")

apply_refactor(s, call_id, payload) ==
    IF payload.refactorType.typehint \in supported_refactorings
    THEN LET diff_file == payload.diff
             patch_set == fromfile(diff_file)
             s1 == [s EXCEPT !.fx.parsed = Append(@, diff_file)]
         IN  IF patch_set = <<>>                     \* not patch_set
             THEN logger(s1, "warning", <<"Couldn't parse diff_file", diff_file>>)
             ELSE LET file == refactorings[payload.procedureId]
                      s2 == logger(s1, "debug", <<"Refactoring get root from", file>>)
                      root == root_as_str_from_abspath(file)
                      s3 == logger(s2, "debug", <<"Refactoring set root">>)
                      result == patch_set_apply(patch_set, 0, root)
                      s4 == [s3 EXCEPT !.fx.applied = Append(@, <<diff_file>> \o root)]
                  IN  IF result
                      THEN status_message(
                               logger(set_timeout(s4, [fn |-> "reload_file", file |-> file], 0),
                                      "info", <<"Refactoring succeeded, patch file", diff_file>>),
                               <<"Refactoring succeeded">>)
                      ELSE status_message(
                               logger(s4, "error", <<"Patch refactoring failed, patch file", diff_file>>),
                               <<"Refactor failed", diff_file>>)
    \* patch_set is read at line 279 without having been assigned
    ELSE raise(s, "UnboundLocalError")

\* ------------------------------------------------------------ symbol_format
\* Formatted text is the sequence of its pieces; a name of the payload is one
\* piece, except a parameter type's name, which is the sequence of its parts
\* ("<byname>", "[", "Int", "]").

file_and_line_info(path, line) ==
    <<path, " | Line ", IF line = 0 THEN 1 ELSE line>>

is_basic_type(completion) == completion.typehint = "BasicTypeInfo"

formatted_type(typeInfo) ==
    IF is_basic_type(typeInfo) THEN typeInfo.name ELSE typeInfo.resultType.name

\* pt_name[:-1]
drop_last(str) == SubSeq(str, 1, Len(str) - 1)

formatted_param_type(ptype) ==
    LET pt_name == ptype.name
    IN  IF Len(pt_name) > 0 /\ pt_name[1] = "<byname>"
        THEN drop_last(<<"=> ">> \o SubSeq(pt_name, 3, Len(pt_name)))
        ELSE IF Len(pt_name) > 0 /\ pt_name[1] = "<repeated>"
        THEN drop_last(SubSeq(pt_name, 3, Len(pt_name))) \o <<"*">>
        ELSE pt_name

\* sep.join(parts), each part a sequence of pieces
RECURSIVE join(_, _)
join(sep, parts) ==
    IF parts = <<>> THEN <<>>
    ELSE IF Len(parts) = 1 THEN parts[1]
    ELSE parts[1] \o <<sep>> \o join(sep, Tail(parts))

concat_params(params) ==
    join(", ", [i \in 1..Len(params) |-> <<params[i][1], ": ">> \o params[i][2]])

formatted_param_section(section) ==
    LET implicit == IF section.isImplicit THEN <<"implicit ">> ELSE <<>>
        s_params == [i \in 1..Len(section.params) |->
                        <<section.params[i][1], formatted_param_type(section.params[i][2])>>]
    IN  <<"(">> \o implicit \o concat_params(s_params) \o <<")">>

RECURSIVE concat(_)
concat(parts) == IF parts = <<>> THEN <<>> ELSE Head(parts) \o concat(Tail(parts))

formatted_message_params(typeInfo) ==
    concat([k \in 1..Len(typeInfo.paramSections) |->
               formatted_param_section(typeInfo.paramSections[k])])

\* The loop of formatted_insertion_params from section k on, i being the
\* placeholder counter on entry.
RECURSIVE insertion_sections(_, _, _)
insertion_sections(sections, k, i) ==
    IF k > Len(sections) THEN <<>>
    ELSE LET params == sections[k].params
             param_snippets == [j \in 1..Len(params) |->
                 <<"${", ToString(i + j - 1), ":", params[j][1], ":">>
                 \o formatted_param_type(params[j][2]) \o <<"}">>]
         IN  <<"(">> \o join(", ", param_snippets) \o <<")">>
             \o insertion_sections(sections, k + 1, i + Len(params))

formatted_insertion_params_reset(typeInfo) ==
    concat([k \in 1..Len(typeInfo.paramSections) |->
               insertion_sections(<<typeInfo.paramSections[k]>>, 1, 1)])

formatted_insertion_params(typeInfo) == insertion_sections(typeInfo.paramSections, 1, 1)

formatted_completion_sig(completion, forInsertion) ==
    LET f_result == <<completion.name>>
    IN  IF is_basic_type(completion.typeInfo) THEN f_result
        ELSE IF Len(completion.typeInfo.paramSections) = 0 THEN f_result
        ELSE IF ~forInsertion
        THEN f_result \o formatted_message_params(completion.typeInfo)
        ELSE f_result \o formatted_insertion_params(completion.typeInfo)

\* "{}\t{:^32.30} {:>10}".format(word, abbr, menu): abbr cut to 30 characters
\* and centred in 32, menu right-aligned in 10.
completion_to_suggest(completion) ==
    LET res == [word |-> completion.name,
                abbr |-> formatted_completion_sig(completion, FALSE),
                menu |-> formatted_type(completion.typeInfo),
                sig  |-> formatted_completion_sig(completion, TRUE)]
    IN  << <<res.word, "\t", <<"^32.30", res.abbr>>, " ", <<">10", res.menu>> >>, res.sig >>

type_to_show(tpe) ==
    IF is_basic_type(tpe) THEN <<tpe.fullName>>
    ELSE formatted_message_params(tpe) \o <<" => ", formatted_type(tpe)>>

\* ---------------------------------------------------------- location lists
\* A file is <<directory, name>>; the project root is a directory.

project_root == "/proj"

\* paths.encode_path(paths.relative_path(root, file)): None (<<>>) for a file
\* outside the root.
relative_path(root, file) == IF file[1] = root THEN <<file[2]>> ELSE <<>>

path_to_display(file) ==
    LET path == relative_path(project_root, file)
    IN  IF path # <<>> THEN path[1] ELSE file[1] \o file[2]

\* `if p:` for p = sym.get("pos")
has_pos(sym) == "pos" \in DOMAIN sym /\ DOMAIN sym.pos # {}

RECURSIVE symbol_search_locations_reversed(_)
symbol_search_locations_reversed(syms) ==
    IF syms = <<>> THEN <<>>
    ELSE symbol_search_locations_reversed(Tail(syms))
         \o (IF has_pos(Head(syms))
             THEN << <<Head(syms).pos.file, Head(syms).pos.line>> >> ELSE <<>>)

RECURSIVE symbol_search_locations(_)
symbol_search_locations(syms) ==
    IF syms = <<>> THEN <<>>
    ELSE (IF has_pos(Head(syms))
          THEN << <<Head(syms).pos.file, Head(syms).pos.line>> >> ELSE <<>>)
         \o symbol_search_locations(Tail(syms))

RECURSIVE symbol_search_items(_)
symbol_search_items(syms) ==
    IF syms = <<>> THEN <<>>
    ELSE (IF has_pos(Head(syms))
          THEN << <<replace(Head(syms).name, "$", "."),
                    file_and_line_info(path_to_display(Head(syms).pos.file),
                                       Head(syms).pos.line)>> >>
          ELSE <<>>)
         \o symbol_search_items(Tail(syms))

\* The closure open_item of the three location handlers.
open_item(s, location_list, index) ==
    IF index = -1 THEN s
    ELSE LET loc == location_list[index + 1]
         IN  [s EXCEPT !.fx.editor = Append(@, <<"open_and_scroll", loc[1], loc[2]>>)]

location_panel(item_list, location_list) ==
    [fn |-> "show_quick_panel", items |-> item_list, on_select |-> "open_item",
     location_list |-> location_list]

handle_symbol_search(s, call_id, payload) ==
    LET s1 == logger(s, "debug", <<"handle_symbol_search: in">>)
        syms == payload.syms
    IN  set_timeout(s1, location_panel(symbol_search_items(syms),
                                       symbol_search_locations(syms)), 0)

handle_source_positions(s, call_id, payload) ==
    LET s1 == logger(s, "debug", <<"handle_source_positions: in">>)
        sourcePositions == payload.positions
    IN  IF Len(sourcePositions) = 0
        THEN set_timeout(s1, [fn |-> "show_popup", content |-> <<"No usages found.">>], 0)
        ELSE LET location_list == [i \in 1..Len(sourcePositions) |->
                     <<sourcePositions[i].position.file, sourcePositions[i].position.line>>]
                 item_list == [i \in 1..Len(sourcePositions) |->
                     <<get(sourcePositions[i], "preview", "no preview available"),
                       file_and_line_info(path_to_display(sourcePositions[i].position.file),
                                          sourcePositions[i].position.line)>>]
             IN  set_timeout(s1, location_panel(item_list, location_list), 0)

handle_hierarchy_info(s, call_id, payload) ==
    LET s1 == logger(s, "debug", <<"handle_hierarchy_info: in">>)
        classinfos == payload.inheritors
    IN  IF Len(classinfos) = 0
        THEN set_timeout(s1, [fn |-> "show_popup",
                              content |-> <<"No implementations found.">>], 0)
        ELSE LET location_list == [i \in 1..Len(classinfos) |->
                     <<classinfos[i].sourcePosition.file, classinfos[i].sourcePosition.line>>]
                 item_list == [i \in 1..Len(classinfos) |->
                     << <<classinfos[i].declAs.typehint, " ",
                          get(classinfos[i], "scalaName", classinfos[i].fqn)>>,
                        file_and_line_info(path_to_display(classinfos[i].sourcePosition.file),
                                           classinfos[i].sourcePosition.line)>>]
             IN  set_timeout(s1, location_panel(item_list, location_list), 0)

\* ------------------------------------------------------------- symbol info

\* The attempts handle_symbol_info gives _scroll_once_loaded, and the delay
\* between two of them.
ScrollAttempts == 10
ScrollDelay == 100

\* `not d.get(key)`: the key is absent (None) or 0.
falsy(d, key) == key \notin DOMAIN d \/ d[key] = 0

\* The line editor.scroll is given: the position's line, else the line of its
\* offset, view.rowcol(offset)[0] + 1.
scroll_line(pos) ==
    IF ~falsy(pos, "line") THEN <<"line", pos.line>> ELSE <<"rowcol + 1", pos.offset>>

_scroll_once_loaded_forever(s, view, pos, attempts, loading1, loading2) ==
    IF falsy(pos, "offset") /\ falsy(pos, "line")
    THEN logger(s, "debug", <<"No offset or line number were found.">>)
    ELSE IF loading1
    THEN set_timeout(s, [fn |-> "_scroll_once_loaded", view |-> view, pos |-> pos,
                         attempts |-> attempts], ScrollDelay)
    ELSE [s EXCEPT !.fx.editor = Append(@, <<"scroll", view, scroll_line(pos)>>)]

_scroll_once_loaded_eager(s, view, pos, attempts, loading1, loading2) ==
    LET s1 == [s EXCEPT !.fx.asked = Append(@, loading1)]
    IN  IF loading1 /\ attempts # 0
        THEN set_timeout(s1, [fn |-> "_scroll_once_loaded", view |-> view, pos |-> pos,
                              attempts |-> attempts - 1], ScrollDelay)
        ELSE [s1 EXCEPT !.fx.editor = Append(@, <<"scroll", view, pos>>)]

\* One run of the closure _scroll_once_loaded; loading1 and loading2 are what
\* view.is_loading() answers at lines 191 and 195, kept in fx.asked.
_scroll_once_loaded(s, view, pos, attempts, loading1, loading2) ==
    IF falsy(pos, "offset") /\ falsy(pos, "line")
    THEN logger(s, "debug", <<"No offset or line number were found.">>)
    ELSE LET s1 == [s EXCEPT !.fx.asked = Append(@, loading1)]     \* line 191
         IN  IF loading1 /\ attempts # 0
             THEN set_timeout(s1, [fn |-> "_scroll_once_loaded", view |-> view, pos |-> pos,
                                   attempts |-> attempts - 1], ScrollDelay)
             ELSE LET s2 == [s1 EXCEPT !.fx.asked = Append(@, loading2)]   \* line 195
                  IN  IF ~loading2
                      THEN [s2 EXCEPT !.fx.editor =
                                          Append(@, <<"scroll", view, scroll_line(pos)>>)]
                      ELSE logger(s2, "debug",
                                  <<"Scrolling failed as the view didn't get ready in time.">>)

\* The closure _scroll, for a view that was already open.  view.rowcol(None)
\* raises TypeError.
_scroll(s, view, pos) ==
    IF falsy(pos, "line") /\ "offset" \notin DOMAIN pos
    THEN raise(s, "TypeError")
    ELSE [s EXCEPT !.fx.editor = @ \o << <<"focus_view", view>>,
                                         <<"scroll", view, scroll_line(pos)>> >>]

handle_symbol_info_any_file(s, call_id, payload, view_found) ==
    IF "declPos" \notin DOMAIN payload
    THEN error_message(s, <<"Couldn't find the declaration position for symbol.",
                            get(payload, "name", "None")>>)
    ELSE LET decl_pos == payload.declPos
             f == get(decl_pos, "file", "None")
             s2 == [s EXCEPT !.fx.editor = Append(@, <<"view_for_file", f>>)]
         IN  IF ~view_found
             THEN set_timeout([s2 EXCEPT !.fx.editor = Append(@, <<"open_file", f>>)],
                              [fn |-> "_scroll_once_loaded", view |-> f,
                               pos |-> decl_pos, attempts |-> ScrollAttempts], 0)
             ELSE set_timeout(s2, [fn |-> "_scroll", view |-> f, pos |-> decl_pos], 0)

\* view_found: whether editor.view_for_file(f) finds an open view.
handle_symbol_info(s, call_id, payload, view_found) ==
    IF "declPos" \notin DOMAIN payload
    THEN error_message(s, <<"Couldn't find the declaration position for symbol.",
                            get(payload, "name", "None")>>)
    ELSE LET decl_pos == payload.declPos
         IN  IF "file" \notin DOMAIN decl_pos
             THEN error_message(s, <<"Couldn't find the file where it's defined.">>)
             ELSE LET f == decl_pos.file
                      s1 == logger(s, "debug", <<"Jumping to file", f>>)
                      s2 == [s1 EXCEPT !.fx.editor = Append(@, <<"view_for_file", f>>)]
                  IN  IF ~view_found
                      THEN set_timeout([s2 EXCEPT !.fx.editor = Append(@, <<"open_file", f>>)],
                                       [fn |-> "_scroll_once_loaded", view |-> f,
                                        pos |-> decl_pos, attempts |-> ScrollAttempts], 0)
                      ELSE set_timeout(s2, [fn |-> "_scroll", view |-> f, pos |-> decl_pos], 0)

\* -------------------------------------------------------------- completions

suggestions_of_unfiltered(completions) ==
    [i \in 1..Len(completions) |->
        IF "typeInfo" \in DOMAIN completions[i]
        THEN completion_to_suggest(completions[i])
        ELSE << <<completions[i].name>>, <<completions[i].name>> >>]

\* [completion_to_suggest(c) for c in completions if "typeInfo" in c]
RECURSIVE suggestions_of(_)
suggestions_of(completions) ==
    IF completions = <<>> THEN <<>>
    ELSE (IF "typeInfo" \in DOMAIN Head(completions)
          THEN <<completion_to_suggest(Head(completions))>> ELSE <<>>)
         \o suggestions_of(Tail(completions))

_hack_unguarded(s, prefix, completions, visible) ==
    LET s0 == [s EXCEPT !.fx.asked = Append(@, visible)]
    IN  IF visible
        THEN LET s1 == [s0 EXCEPT !.fx.editor = Append(@, <<"hide_auto_complete">>)]
                 s2 == [s1 EXCEPT !.suggestions = suggestions_of(completions)]
             IN  set_timeout(s2, [fn |-> "hack2"], 1)
        ELSE s0

\* The closure _hack; visible is what is_auto_complete_visible() answers, kept
\* in fx.asked.
_hack(s, prefix, completions, visible) ==
    LET s0 == [s EXCEPT !.fx.asked = Append(@, visible)]
    IN  IF visible /\ s.current_prefix = prefix
        THEN LET s1 == [s0 EXCEPT !.fx.editor = Append(@, <<"hide_auto_complete">>)]
                 s2 == [s1 EXCEPT !.suggestions = suggestions_of(completions)]
             IN  set_timeout(s2, [fn |-> "hack2"], 1)
        ELSE s0

hack2(s) == [s EXCEPT !.fx.editor = Append(@, <<"auto_complete">>)]

handle_completion_info_list(s, call_id, payload) ==
    LET prefix == get(payload, "prefix", "None")
    IN  IF s.current_prefix # "None" /\ s.current_prefix = prefix
        THEN set_timeout(logger(s, "debug", <<"handle_completion_info_list: in async">>),
                         [fn |-> "_hack", prefix |-> prefix,
                          completions |-> payload.completions], 0)
        ELSE LET s1 == [s EXCEPT !.current_prefix = get(payload, "prefix", "None")]
                 s2 == logger(s1, "debug", <<"handle_completion_info_list: in sync">>)
                 s3 == [s2 EXCEPT !.suggestions = suggestions_of(payload.completions)]
             IN  logger(s3, "debug", <<"handle_completion_info_list">>)

\* ------------------------------------------------------------------- types

\* html.escape(text, quote)
html_escape(text, quote) == <<"html.escape", quote>> \o text

show_type(s, call_id, payload) ==
    LET tpe == type_to_show(payload)
        s1 == logger(s, "info", <<"Found type">>)
    IN  set_timeout(s1, [fn |-> "show_popup",
                         content |-> html_escape(tpe, FALSE) \o html_escape(tpe, TRUE)], 0)

\* --------------------------------------------------------------- dispatch

\* self.handlers, as register_responses_handlers fills it.
handlers ==
    [ConnectionInfo |-> "handle_connection_info",
     SendBackgroundMessageEvent |-> "handle_background_message",
     SymbolInfo |-> "handle_symbol_info",
     IndexerReadyEvent |-> "handle_indexer_ready",
     AnalyzerReadyEvent |-> "handle_analyzer_ready",
     NewScalaNotesEvent |-> "handle_scala_notes",
     NewJavaNotesEvent |-> "handle_java_notes",
     ClearAllScalaNotesEvent |-> "handle_clear_scala_notes",
     BasicTypeInfo |-> "show_type",
     ArrowTypeInfo |-> "show_type",
     FullTypeCheckCompleteEvent |-> "handle_typecheck_complete",
     StringResponse |-> "handle_string_response",
     CompletionInfoList |-> "handle_completion_info_list",
     SymbolSearchResults |-> "handle_symbol_search",
     DebugOutputEvent |-> "handle_debug_output",
     DebugBreakEvent |-> "handle_debug_break",
     DebugBacktrace |-> "handle_debug_backtrace",
     RefactorDiffEffect |-> "apply_refactor",
     ImportSuggestions |-> "handle_import_suggestions",
     SourcePositions |-> "handle_source_positions",
     HierarchyInfo |-> "handle_hierarchy_info"]

\* A handler the mixin leaves to its subclass (handle_debug_output,
\* handle_debug_break, handle_debug_backtrace): the subclass implements it, or
\* it signals NotImplementedError.
abstract_handler(s, call_id, payload, implemented) ==
    IF implemented THEN s ELSE raise(s, "NotImplementedError")

\* handler(call_id, payload); answer is what the host answers the handler's
\* one question (is a view open for the file, does the subclass implement it).
invoke(handler, s, call_id, payload, answer) ==
    CASE handler = "handle_connection_info" -> handle_connection_info(s, call_id, payload)
      [] handler = "handle_background_message" -> handle_background_message(s, call_id, payload)
      [] handler = "handle_symbol_info" -> handle_symbol_info(s, call_id, payload, answer)
      [] handler = "handle_indexer_ready" -> handle_indexer_ready(s, call_id, payload)
      [] handler = "handle_analyzer_ready" -> handle_analyzer_ready(s, call_id, payload)
      [] handler = "handle_scala_notes" -> handle_scala_notes(s, call_id, payload)
      [] handler = "handle_java_notes" -> handle_java_notes(s, call_id, payload)
      [] handler = "handle_clear_scala_notes" -> handle_clear_scala_notes(s, call_id, payload)
      [] handler = "show_type" -> show_type(s, call_id, payload)
      [] handler = "handle_typecheck_complete" -> handle_typecheck_complete(s, call_id, payload)
      [] handler = "handle_string_response" -> handle_string_response(s, call_id, payload)
      [] handler = "handle_completion_info_list" ->
             handle_completion_info_list(s, call_id, payload)
      [] handler = "handle_symbol_search" -> handle_symbol_search(s, call_id, payload)
      [] handler = "apply_refactor" -> apply_refactor(s, call_id, payload)
      [] handler = "handle_import_suggestions" -> handle_import_suggestions(s, call_id, payload)
      [] handler = "handle_source_positions" -> handle_source_positions(s, call_id, payload)
      [] handler = "handle_hierarchy_info" -> handle_hierarchy_info(s, call_id, payload)
      [] OTHER -> abstract_handler(s, call_id, payload, answer)

\* util.catch(exception, handler): the with-block's exception is intercepted
\* when it is an instance of `exception`, and propagates otherwise.
caught(exception, r) == r.fx.raised = exception

feature_not_supported_unknown(s, typehint, m) ==
    LET msg == <<"handler_not_implemented", typehint, "unknown">>
    IN  status_message(logger(s, "error", msg), msg)

feature_not_supported(s, typehint, m) ==
    LET msg == <<"handler_not_implemented", typehint, s.server_version>>
    IN  status_message(logger(s, "error", msg), msg)

handle_incoming_response_strict(s, call_id, payload, answer) ==
    LET typehint == payload.typehint
    IN  IF typehint \in DOMAIN handlers
        THEN invoke(handlers[typehint], [s EXCEPT !.fx.handler = handlers[typehint]],
                    call_id, payload, answer)
        ELSE status_message(raise(s, "KeyError"), <<"unknown response", typehint>>)

handle_incoming_response(s, call_id, payload, answer) ==
    LET s1 == logger(s, "debug", <<"handle_incoming_response: in", payload.typehint>>)
        typehint == payload.typehint
    IN  IF typehint \in DOMAIN handlers             \* handler = self.handlers.get(typehint)
        THEN LET handler == handlers[typehint]
                 r == invoke(handler, [s1 EXCEPT !.fx.handler = handler],
                             call_id, payload, answer)
             IN  IF caught("NotImplementedError", r)
                 THEN feature_not_supported([r EXCEPT !.fx.raised = "none"], typehint,
                                            "NotImplementedError")
                 ELSE r
        ELSE logger(s1, "warning", <<"Response has not been handled", typehint>>)

\* --------------------------------------------------------------- messages

Int_ == [typehint |-> "BasicTypeInfo", name |-> "Int", fullName |-> "scala.Int"]

ParamInt == [name |-> <<"Int">>]
ParamByName == [name |-> <<"<byname>", "[", "Int", "]">>]

Arrow2 ==
    [typehint |-> "ArrowTypeInfo", name |-> "(x: Int)(y: => Int) => Int",
     fullName |-> "(x: Int)(y: => Int) => Int", resultType |-> Int_,
     paramSections |-> << [isImplicit |-> FALSE, params |-> << <<"x", ParamInt>> >>],
                          [isImplicit |-> TRUE, params |-> << <<"y", ParamByName>> >>] >>]

FileA == <<"/proj", "/A.scala">>
FileB == <<"/ext", "/B.scala">>

StringResponses ==
    {[typehint |-> "StringResponse", text |-> t] :
        t \in {<<"http", "://doc/x.html">>, <<"doc/x.html">>}}

ImportSuggestions ==
    {[typehint |-> "ImportSuggestions", symLists |-> l] :
        l \in {<<>>,
               << <<[name |-> <<"a", ".", "B", "$">>]>>,
                  <<[name |-> <<"a", ".", "B", "$">>], [name |-> <<"a", ".", "A">>]>> >>}}

RefactorDiffEffects ==
    {[typehint |-> "RefactorDiffEffect", refactorType |-> [typehint |-> r],
      diff |-> d, procedureId |-> p] :
         r \in {"AddImport", "Rename", "ExtractMethod", "ExpandMatchCases"},
         d \in DiffFiles, p \in ProcedureIds}

\* The messages of the connection's life cycle and of the diagnostics.
LifecycleEvents ==
    {[typehint |-> "ConnectionInfo", version |-> v] : v \in {"1.0", "2.0"}}
    \cup {[typehint |-> "ConnectionInfo"],
          [typehint |-> "SendBackgroundMessageEvent", detail |-> "indexing"],
          [typehint |-> "IndexerReadyEvent"],
          [typehint |-> "AnalyzerReadyEvent"],
          [typehint |-> "NewScalaNotesEvent", notes |-> <<"e1">>],
          [typehint |-> "NewScalaNotesEvent", notes |-> <<"w1", "e1">>],
          [typehint |-> "NewJavaNotesEvent", notes |-> <<"j1">>],
          [typehint |-> "ClearAllScalaNotesEvent"],
          [typehint |-> "FullTypeCheckCompleteEvent"],
          [typehint |-> "DebugOutputEvent"],
          [typehint |-> "DebugBreakEvent"],
          [typehint |-> "DebugBacktrace"]}

\* Messages of tags no handler is registered for.
UnregisteredMessages ==
    {[typehint |-> "DebugVmError"], [typehint |-> "PackageInfo"],
     [typehint |-> "GreetingInfo"]}

\* One message of every other registered tag.
OtherResponses ==
    {Int_, Arrow2,
     [typehint |-> "RefactorDiffEffect", refactorType |-> [typehint |-> "Rename"],
      diff |-> "ok.diff", procedureId |-> 1],
     [typehint |-> "CompletionInfoList", prefix |-> "fo",
      completions |-> <<[name |-> "foo", typeInfo |-> Arrow2], [name |-> "fob"],
                        [name |-> "fox", typeInfo |-> Int_]>>],
     [typehint |-> "SymbolSearchResults",
      syms |-> <<[name |-> <<"a", ".", "B", "$">>, pos |-> [file |-> FileB, line |-> 0]],
                 [name |-> <<"a", ".", "A">>],
                 [name |-> <<"b", ".", "A">>, pos |-> [file |-> FileA, line |-> 7]]>>],
     [typehint |-> "SourcePositions",
      positions |-> <<[position |-> [file |-> FileA, line |-> 3], preview |-> "val x"],
                      [position |-> [file |-> FileB, line |-> 0]]>>],
     [typehint |-> "HierarchyInfo",
      inheritors |-> <<[fqn |-> "a.B", declAs |-> [typehint |-> "Class"],
                        sourcePosition |-> [file |-> FileA, line |-> 2]]>>],
     [typehint |-> "SymbolInfo", name |-> "x"],
     [typehint |-> "SymbolInfo", name |-> "x", declPos |-> [file |-> FileA, offset |-> 40]]}

\* The names "scala.util.Random$" and "java.util.List$" and what the panel is
\* expected to show for them.
scala_util_Random_ == <<"s", "c", "a", "l", "a", ".", "u", "t", "i", "l", ".", "R", "a", "n", "d", "o", "m", "$">>
java_util_List_ == <<"j", "a", "v", "a", ".", "u", "t", "i", "l", ".", "L", "i", "s", "t", "$">>
scala_util_Random == <<"s", "c", "a", "l", "a", ".", "u", "t", "i", "l", ".", "R", "a", "n", "d", "o", "m">>
java_util_List == <<"j", "a", "v", "a", ".", "u", "t", "i", "l", ".", "L", "i", "s", "t">>

\* ImportSuggestions with a name reported twice, in two lists.
ImportExample ==
    [typehint |-> "ImportSuggestions",
     symLists |-> << <<[name |-> scala_util_Random_], [name |-> scala_util_Random_]>>,
                     <<[name |-> java_util_List_]>> >>]

WithCallId(ids, payloads) == {[call_id |-> c, payload |-> p] : c \in ids, p \in payloads}

\* Every tag: what the dispatcher is checked on.
Msgs ==
    WithCallId({1}, LifecycleEvents \cup UnregisteredMessages \cup OtherResponses
                    \cup StringResponses \cup ImportSuggestions)

\* The responses that read the call options, with the events around them.
CallMsgs ==
    WithCallId(CallIds, StringResponses \cup ImportSuggestions)
    \cup WithCallId({1}, {[typehint |-> "IndexerReadyEvent"], [typehint |-> "GreetingInfo"]})

\* The refactoring responses.
RefactorMsgs ==
    WithCallId({1}, RefactorDiffEffects \cup {[typehint |-> "ConnectionInfo", version |-> "1.0"]})

\* The option bags the request layer stores with a request.
Options ==
    {[k \in {} |-> TRUE], [browse |-> TRUE], [browse |-> FALSE], [file_name |-> "A.scala"]}

ParamRepeated == [name |-> <<"<repeated>", "[", "Int", "]">>]

\* The method type whose k-th parameter section has sizes[k] parameters.
arrow_of(sizes) ==
    [typehint |-> "ArrowTypeInfo", name |-> "method", fullName |-> "method",
     resultType |-> Int_,
     paramSections |->
         [k \in 1..Len(sizes) |->
             [isImplicit |-> (k = 2),
              params |-> [j \in 1..sizes[k] |->
                             <<"p", IF j = 2 THEN ParamByName
                                    ELSE IF j = 3 THEN ParamRepeated ELSE ParamInt>>]]]]

ArrowTypes ==
    {arrow_of(sizes) : sizes \in UNION {[1..n -> 0..MaxParams] : n \in 0..MaxSections}}

\* Completion responses of one method each, sent while no prefix is tracked.
FormatMsgs ==
    WithCallId({1}, {[typehint |-> "CompletionInfoList",
                      completions |-> <<[name |-> n, typeInfo |-> t]>>] :
                        n \in {"m", "apply"}, t \in ArrowTypes}
                    \cup {[typehint |-> "CompletionInfoList",
                           completions |-> <<[name |-> "v", typeInfo |-> Int_]>>]})

\* Completion lists: a method, an entry without typeInfo and a value; a
\* method without parameter sections; only an entry without typeInfo.
CompletionLists ==
    {<<[name |-> "foo", typeInfo |-> Arrow2], [name |-> "fob"],
       [name |-> "fox", typeInfo |-> Int_]>>,
     <<[name |-> "bar", typeInfo |-> arrow_of(<<>>)]>>,
     <<[name |-> "baz"]>>}

\* Completion responses for two prefixes and without a prefix.
CompletionMsgs ==
    WithCallId({1},
        {[typehint |-> "CompletionInfoList", prefix |-> p, completions |-> l] :
            p \in {"fo", "ba"}, l \in CompletionLists}
        \cup {[typehint |-> "CompletionInfoList", completions |-> l] : l \in CompletionLists})

\* Symbol search results, usages and inheritors: with and without a position,
\* inside and outside the project, on line 0, and none at all.
LocationResponses ==
    {[typehint |-> "SymbolSearchResults",
      syms |-> <<[name |-> <<"a", ".", "B", "$">>, pos |-> [file |-> FileB, line |-> 0]],
                 [name |-> <<"a", ".", "A">>],
                 [name |-> <<"b", ".", "A">>, pos |-> [file |-> FileA, line |-> 7]]>>],
     [typehint |-> "SymbolSearchResults", syms |-> <<[name |-> <<"a", ".", "A">>]>>],
     [typehint |-> "SourcePositions",
      positions |-> <<[position |-> [file |-> FileA, line |-> 3], preview |-> "val x"],
                      [position |-> [file |-> FileB, line |-> 0]],
                      [position |-> [file |-> FileA, line |-> 1], preview |-> "def y"]>>],
     [typehint |-> "SourcePositions", positions |-> <<>>],
     [typehint |-> "HierarchyInfo",
      inheritors |-> <<[fqn |-> "a.B", declAs |-> [typehint |-> "Class"],
                        sourcePosition |-> [file |-> FileB, line |-> 2]],
                       [fqn |-> "a.C$", scalaName |-> "a.C", declAs |-> [typehint |-> "Object"],
                        sourcePosition |-> [file |-> FileA, line |-> 9]]>>],
     [typehint |-> "HierarchyInfo", inheritors |-> <<>>]}

\* SymbolInfo responses: without a declaration position, with one that has no
\* file, and with a file and an offset, a line, both as 0, or neither.
SymbolInfos ==
    {[typehint |-> "SymbolInfo", name |-> "x"],
     [typehint |-> "SymbolInfo", name |-> "x", declPos |-> [line |-> 3]],
     [typehint |-> "SymbolInfo", name |-> "x", declPos |-> [file |-> FileA, offset |-> 40]],
     [typehint |-> "SymbolInfo", name |-> "x", declPos |-> [file |-> FileB, line |-> 3]],
     [typehint |-> "SymbolInfo", name |-> "x",
      declPos |-> [file |-> FileA, line |-> 0, offset |-> 0]],
     [typehint |-> "SymbolInfo", name |-> "x", declPos |-> [file |-> FileB]]}

SymbolMsgs == WithCallId({1}, SymbolInfos)

\* The options of an import-suggestions request, and those of the requests
\* that reuse its call id: an import-suggestions request for another file, a
\* documentation lookup to open in the browser.
ImportOptions == [file_name |-> "A.scala"]
ReuseOptions == {[file_name |-> "B.scala"], [browse |-> TRUE]}

\* The responses to these requests.
ReuseMsgs == WithCallId({1}, ImportSuggestions \cup StringResponses)

\* The responses shown in a quick panel.
PanelMsgs ==
    WithCallId({1}, ImportSuggestions \cup {ImportExample} \cup LocationResponses)

\* ----------------------------------------------------------------- actions

Install(r) ==
    /\ server_version' = r.server_version
    /\ indexer_ready' = r.indexer_ready
    /\ analyzer_ready' = r.analyzer_ready
    /\ notes' = r.notes
    /\ call_options' = r.call_options
    /\ current_prefix' = r.current_prefix
    /\ suggestions' = r.suggestions
    /\ timers' = r.timers
    /\ panels' = r.panels
    /\ fx' = r.fx

\* The payload of a step that is no message.
NoPayload == [typehint |-> "None"]

Starting(op, payload, call_id) == [State EXCEPT !.fx = NoFx(op, payload, call_id)]

\* The flags and the options map as EnsimeClient, the class the mixin is used
\* in, sets them up.
client_ready_flag == FALSE
client_call_options == [c \in {} |-> [k \in {} |-> TRUE]]

Init ==
    /\ server_version = "unknown"
    /\ indexer_ready = client_ready_flag
    /\ analyzer_ready = client_ready_flag
    /\ notes = <<>>
    /\ call_options = client_call_options
    /\ current_prefix = "None"
    /\ suggestions = <<>>
    /\ timers = <<>>
    /\ panels = <<>>
    /\ fx = NoFx("__init__", NoPayload, 0)
    /\ dispatched = 0
    /\ connection_infos = 0
    /\ issued = {}

\* The answers the host can give the handler of a tag.
Answers(typehint) ==
    IF typehint \in {"SymbolInfo", "DebugOutputEvent", "DebugBreakEvent", "DebugBacktrace"}
    THEN BOOLEAN ELSE {TRUE}

\* The transport hands one decoded message, of those in M, to
\* handle_incoming_response.
Deliver(M) ==
    /\ \E m \in M : \E answer \in Answers(m.payload.typehint) :
          /\ Install(handle_incoming_response(
                         Starting("handle_incoming_response", m.payload, m.call_id),
                         m.call_id, m.payload, answer))
          /\ connection_infos' =
                 connection_infos + (IF m.payload.typehint = "ConnectionInfo" THEN 1 ELSE 0)
    /\ dispatched' = dispatched + 1
    /\ UNCHANGED issued

Dispatch(M) == dispatched < MaxMsgs /\ Deliver(M)

\* The transport hands over one of up to MaxCompletions completion responses.
DispatchCompletions == dispatched < MaxCompletions /\ Deliver(CompletionMsgs)

\* The request layer sends a request and stores its options under its call id.
send_request(s, call_id, options) ==
    [s EXCEPT !.call_options = [c \in DOMAIN @ \cup {call_id} |->
                                   IF c = call_id THEN options ELSE @[c]]]

SendRequest(ids, options) ==
    /\ \E c \in ids \ issued, o \in options :
          /\ Install(send_request(Starting("send_request", NoPayload, c), c, o))
          /\ issued' = issued \cup {c}
    /\ UNCHANGED <<dispatched, connection_infos>>

\* sequence without its i-th element
remove_at(seq, i) == SubSeq(seq, 1, i - 1) \o SubSeq(seq, i + 1, Len(seq))

\* A callback is due before every callback scheduled after it with the same
\* or a longer delay.
due(i) == \A j \in 1..(i - 1) : timers[j].delay > timers[i].delay

\* The call a due callback makes; b1, b2 and outcome are the host's answers.
run_callback(s, cb, b1, b2, outcome) ==
    CASE cb.fn = "show_quick_panel" -> [s EXCEPT !.panels = Append(@, cb)]
      [] cb.fn = "_browse_doc" -> _browse_doc(s, cb.url, outcome)
      [] cb.fn = "reload_file" ->
             [s EXCEPT !.fx.editor = Append(@, <<"reload_file", cb.file>>)]
      [] cb.fn = "show_popup" -> [s EXCEPT !.fx.editor = Append(@, <<"show_popup">>)]
      [] cb.fn = "_scroll_once_loaded" ->
             _scroll_once_loaded(s, cb.view, cb.pos, cb.attempts, b1, b1 /\ b2)
      [] cb.fn = "_scroll" -> _scroll(s, cb.view, cb.pos)
      [] cb.fn = "_hack" -> _hack(s, cb.prefix, cb.completions, b1)
      [] OTHER -> hack2(s)

\* The answers the host can give a callback: is the view loading (twice), is
\* the popup visible, what the browser did.
Asks(fn, n) ==
    IF \/ fn = "_scroll_once_loaded"
       \/ fn = "_hack" /\ n = 1
    THEN BOOLEAN ELSE {TRUE}

Outcomes(fn) == IF fn = "_browse_doc" THEN {"opened", "refused", "Error"} ELSE {"opened"}

FireTimer ==
    /\ \E i \in 1..Len(timers) :
          \E b1 \in Asks(timers[i].cb.fn, 1), b2 \in Asks(timers[i].cb.fn, 2),
             outcome \in Outcomes(timers[i].cb.fn) :
          /\ due(i)
          /\ Install(run_callback(
                 [Starting(timers[i].cb.fn, NoPayload, 0) EXCEPT !.timers = remove_at(@, i)],
                 timers[i].cb, b1, b2, outcome))
    /\ UNCHANGED <<dispatched, connection_infos, issued>>

\* on_select(index) of a panel on screen.
on_select(s, panel, index) ==
    IF panel.on_select = "do_refactor"
    THEN do_refactor(s, panel.call_id, panel.items, index)
    ELSE open_item(s, panel.location_list, index)

\* The user picks a row of a quick panel, or cancels it (index -1).
SelectPanel ==
    /\ \E i \in 1..Len(panels) : \E index \in -1..(Len(panels[i].items) - 1) :
          Install(on_select(
              [Starting(panels[i].on_select, NoPayload,
                        IF panels[i].on_select = "do_refactor" THEN panels[i].call_id ELSE 0)
                  EXCEPT !.panels = remove_at(@, i), !.fx.choice = index],
              panels[i], index))
    /\ UNCHANGED <<dispatched, connection_infos, issued>>

Next ==
    \/ Dispatch(Msgs)
    \/ SendRequest({1}, {[browse |-> TRUE], [file_name |-> "A.scala"]})
    \/ FireTimer
    \/ SelectPanel

Spec == Init /\ [][Next]_vars

NextCalls == Dispatch(CallMsgs) \/ SendRequest(CallIds, Options) \/ FireTimer \/ SelectPanel

SpecCalls == Init /\ [][NextCalls]_vars

NextRefactor == Dispatch(RefactorMsgs) \/ SendRequest(CallIds, Options) \/ FireTimer

SpecRefactor == Init /\ [][NextRefactor]_vars

NextPanels ==
    \/ Dispatch(PanelMsgs)
    \/ SendRequest({1}, {[file_name |-> "A.scala"]})
    \/ FireTimer
    \/ SelectPanel

SpecPanels == Init /\ [][NextPanels]_vars

\* The first response delivered is one of FormatMsgs.
DispatchFormat == dispatched = 0 /\ Deliver(FormatMsgs)

NextFormat == DispatchFormat

SpecFormat == Init /\ [][NextFormat]_vars

NextCompletions == DispatchCompletions \/ FireTimer

SpecCompletions == Init /\ [][NextCompletions]_vars

NextSymbol == Dispatch(SymbolMsgs) \/ FireTimer

\* The host runs a callback it was handed once the callback is due.
SpecSymbol == Init /\ [][NextSymbol]_vars /\ WF_vars(FireTimer)

\* The response m answers the request whose options are stored under its call
\* id: import suggestions an import-suggestions request for A.scala, a string
\* a documentation lookup.
answers_request(m) ==
    /\ m.call_id \in DOMAIN call_options
    /\ IF m.payload.typehint = "ImportSuggestions"
       THEN call_options[m.call_id] = ImportOptions
       ELSE get(call_options[m.call_id], "browse", FALSE)

DispatchAnswers ==
    dispatched < MaxMsgs /\ Deliver({m \in ReuseMsgs : answers_request(m)})

\* The import panel of a response with call id c is scheduled or on screen.
import_pending(c) ==
    \/ \E i \in 1..Len(panels) :
          panels[i].on_select = "do_refactor" /\ panels[i].call_id = c
    \/ \E i \in 1..Len(timers) :
          /\ timers[i].cb.fn = "show_quick_panel"
          /\ timers[i].cb.on_select = "do_refactor"
          /\ timers[i].cb.call_id = c

\* The request layer reuses a call id whose response has been delivered, for
\* a new request, and stores the new request's options under it.
ReuseCallId ==
    /\ \E c \in issued, o \in ReuseOptions :
          /\ import_pending(c)
          /\ IF c \in DOMAIN call_options THEN call_options[c] = ImportOptions ELSE TRUE
          /\ Install(send_request(Starting("send_request", NoPayload, c), c, o))
    /\ UNCHANGED <<dispatched, connection_infos, issued>>

NextReuse ==
    \/ DispatchAnswers
    \/ SendRequest({1}, {ImportOptions})
    \/ ReuseCallId
    \/ FireTimer
    \/ SelectPanel

SpecReuse == Init /\ [][NextReuse]_vars

\* ------------------------------------------------------------------ claims

\* A step that hands a message to handle_incoming_response.
DispatchStep == dispatched' = dispatched + 1

\* The fields of the handler and of the editor, and the host's queues.
core == <<server_version, indexer_ready, analyzer_ready, notes, call_options>>

Routed(f) ==
    IF f.typehint \in DOMAIN handlers THEN f.handler = handlers[f.typehint]
    ELSE f.handler = "None"

\* C1: a message whose typehint has no registered handler raises nothing,
\* invokes no handler, leaves server_version, the readiness flags, the notes
\* and call_options as they were, shows the user no status or error message
\* and only writes a warning to the log; the message dispatched after it is
\* routed to the handler registered for its typehint.
C1_UnknownTagTolerated ==
    [][DispatchStep =>
         /\ fx'.typehint \notin DOMAIN handlers =>
               /\ fx'.raised = "none" /\ fx'.signalled = "none"
               /\ fx'.handler = "None"
               /\ fx'.status = <<>> /\ fx'.error = <<>>
               /\ fx'.sent = <<>> /\ fx'.editor = <<>>
               /\ \E i \in 1..Len(fx'.log) : fx'.log[i][1] = "warning"
               /\ UNCHANGED <<core, current_prefix, suggestions, timers, panels>>
         /\ (fx.op = "handle_incoming_response" /\ fx.typehint \notin DOMAIN handlers
             /\ fx'.typehint \in DOMAIN handlers) =>
               fx'.handler = handlers[fx'.typehint]
      ]_vars

\* C1 witness: an unregistered tag was dispatched to a handler that has a
\* server version and stored call options.
C1_Witness ==
    /\ fx.op = "handle_incoming_response"
    /\ fx.typehint \notin DOMAIN handlers
    /\ server_version # "unknown"
    /\ DOMAIN call_options # {}

\* C2: when the registered handler signals NotImplementedError the dispatcher
\* does not raise, emits exactly one status message naming the typehint and
\* the server version of that moment, and routes the next message as usual.
C2_NotImplementedReported ==
    [][DispatchStep =>
         /\ fx'.signalled = "NotImplementedError" =>
               /\ fx'.raised = "none"
               /\ fx'.status = << <<"handler_not_implemented", fx'.typehint, server_version>> >>
               /\ fx'.error = <<>>
               /\ server_version' = server_version
         /\ (fx.op = "handle_incoming_response" /\ fx.signalled = "NotImplementedError") =>
               Routed(fx')
      ]_vars

\* C2 witness: a handler signalled NotImplementedError after a ConnectionInfo
\* had set the server version.
C2_Witness ==
    /\ fx.op = "handle_incoming_response"
    /\ fx.signalled = "NotImplementedError"
    /\ server_version = "2.0"

\* A step in which the user answers the import panel: its callback do_refactor
\* runs and the panel goes.
ImportSelectStep == fx'.op = "do_refactor" /\ Len(panels') = Len(panels) - 1

\* C3: a RefactorDiffEffect whose refactorType is none of the supported four
\* is a strict no-op: no exception, no diff parsed, no patch applied, no
\* reload scheduled, no status message.
C3_UnsupportedRefactorNoOp ==
    [][(/\ DispatchStep
        /\ fx'.typehint = "RefactorDiffEffect"
        /\ fx'.payload.refactorType.typehint \notin supported_refactorings) =>
          /\ fx'.raised = "none"
          /\ fx'.parsed = <<>> /\ fx'.applied = <<>>
          /\ fx'.status = <<>>
          /\ timers' = timers
      ]_vars

\* C4: a RefactorDiffEffect of a supported type whose diff does not parse into
\* a patch set ends with the parse failure logged and nothing else done: the
\* patch is not applied, no reload is scheduled, no success is reported.
C4_UnparseableDiffNoEffect ==
    [][(/\ DispatchStep
        /\ fx'.typehint = "RefactorDiffEffect"
        /\ fx'.payload.refactorType.typehint \in supported_refactorings
        /\ fromfile(fx'.payload.diff) = <<>>) =>
          /\ fx'.raised = "none"
          /\ fx'.applied = <<>>
          /\ timers' = timers
          /\ \A i \in 1..Len(fx'.status) : fx'.status[i][1] # "Refactoring succeeded"
          /\ \A i \in 1..Len(fx'.log) : fx'.log[i][1] # "info"
          /\ \E i \in 1..Len(fx'.log) :
                fx'.log[i] = <<"warning", "Couldn't parse diff_file", fx'.payload.diff>>
      ]_vars

\* C4 witness: a Rename whose diff file does not parse was handled.
C4_Witness ==
    /\ fx.op = "handle_incoming_response"
    /\ fx.typehint = "RefactorDiffEffect"
    /\ fx.payload.refactorType.typehint = "Rename"
    /\ fx.payload.diff = "garbage.diff"
    /\ fx.parsed = <<"garbage.diff">>

\* browse is set in the options stored for call id c
browse_set(c) == c \in DOMAIN call_options /\ get(call_options[c], "browse", FALSE)

\* C5: every handler that reads the call_options entry of a response removes
\* it: after a StringResponse with browse set, and after the selection
\* callback of an ImportSuggestions response has run (with a row chosen, so
\* that it read the entry), call_options holds no entry for that call id.
C5_OptionsRemovedWhenConsumed ==
    [][/\ (DispatchStep /\ fx'.typehint = "StringResponse" /\ browse_set(fx'.call_id)) =>
             fx'.call_id \notin DOMAIN call_options'
       /\ (/\ ImportSelectStep
           /\ fx'.choice > -1
           /\ fx'.call_id \in DOMAIN call_options) =>
             fx'.call_id \notin DOMAIN call_options'
      ]_vars

\* C6: a missing call_options entry is tolerated by both handlers that read
\* it: handle_string_response, and do_refactor called with an index >= 0,
\* complete without raising and act as on empty options.
C6_AbsentOptionsTolerated ==
    [][/\ (/\ DispatchStep
           /\ fx'.typehint = "StringResponse"
           /\ fx'.call_id \notin DOMAIN call_options) =>
             /\ fx'.raised = "none"
             /\ timers' = timers
             /\ call_options' = call_options
       /\ (/\ ImportSelectStep
           /\ fx'.choice > -1
           /\ fx'.call_id \notin DOMAIN call_options) =>
             /\ fx'.raised = "none"
             /\ Len(fx'.sent) = 1
             /\ fx'.sent[1].file_name = "None"
      ]_vars

\* C7: a StringResponse whose call options have browse set schedules exactly
\* one browser open and removes the entry; otherwise it schedules nothing and
\* leaves call_options alone; the entries of the other call ids stay as they
\* are, and a StringResponse that follows one with the same call id opens no
\* browser.
C7_StringResponseOneShot ==
    [][(DispatchStep /\ fx'.typehint = "StringResponse") =>
         LET c == fx'.call_id
         IN  /\ IF browse_set(c)
                THEN /\ Len(timers') = Len(timers) + 1
                     /\ SubSeq(timers', 1, Len(timers)) = timers
                     /\ timers'[Len(timers')].cb.fn = "_browse_doc"
                     /\ timers'[Len(timers')].delay = 0
                     /\ c \notin DOMAIN call_options'
                ELSE /\ timers' = timers
                     /\ call_options' = call_options
             /\ \A d \in CallIds \ {c} :
                   /\ (d \in DOMAIN call_options') = (d \in DOMAIN call_options)
                   /\ d \in DOMAIN call_options => call_options'[d] = call_options[d]
             /\ (/\ fx.op = "handle_incoming_response"
                 /\ fx.typehint = "StringResponse"
                 /\ fx.call_id = c) => timers' = timers
             /\ fx'.raised = "none"
      ]_vars

\* C7 witness: a StringResponse consumed the browse options of its call id
\* while another call id had options stored.
C7_Witness ==
    /\ fx.op = "handle_incoming_response"
    /\ fx.typehint = "StringResponse"
    /\ fx.call_id \in issued
    /\ fx.call_id \notin DOMAIN call_options
    /\ DOMAIN call_options # {}
    /\ Len(timers) > 0
    /\ timers[Len(timers)].cb.fn = "_browse_doc"

\* C8 as claimed: server_version is "unknown" until the first ConnectionInfo,
\* which sets it to the payload's version ("unknown" when absent); a later
\* ConnectionInfo and every message of another tag leave it unchanged.
C8_SetOnce ==
    /\ server_version = "unknown"
    /\ [][IF DispatchStep /\ fx'.typehint = "ConnectionInfo" /\ connection_infos = 0
          THEN server_version' = get(fx'.payload, "version", "unknown")
          ELSE server_version' = server_version
         ]_vars

\* C8 as amended: server_version is "unknown" until the first ConnectionInfo;
\* every ConnectionInfo, the first and any later one, sets it to the payload's
\* version ("unknown" when absent); every other step leaves it unchanged.
C8_SetByEveryConnectionInfo ==
    /\ server_version = "unknown"
    /\ [][IF DispatchStep /\ fx'.typehint = "ConnectionInfo"
          THEN server_version' = get(fx'.payload, "version", "unknown")
          ELSE server_version' = server_version
         ]_vars

\* C8 witness: a second ConnectionInfo has set the version.
C8_Witness ==
    /\ connection_infos = 2
    /\ fx.typehint = "ConnectionInfo"
    /\ server_version = "2.0"

\* C9: both readiness flags start false; each becomes true exactly when its
\* own ready event is dispatched, and no step sets a flag back to false.
C9_ReadyFlagsMonotone ==
    /\ ~indexer_ready /\ ~analyzer_ready
    /\ [][/\ indexer_ready' =
               (indexer_ready \/ (DispatchStep /\ fx'.typehint = "IndexerReadyEvent"))
          /\ analyzer_ready' =
               (analyzer_ready \/ (DispatchStep /\ fx'.typehint = "AnalyzerReadyEvent"))
         ]_vars

\* C9 witness: the indexer flag, set by an earlier event, is still true after
\* a later message, and the analyzer flag is still false.
C9_Witness ==
    /\ indexer_ready /\ ~analyzer_ready
    /\ dispatched = 2
    /\ fx.op = "handle_incoming_response"
    /\ fx.typehint = "ClearAllScalaNotesEvent"

\* C10: ClearAllScalaNotesEvent empties the notes, NewScalaNotesEvent appends
\* the payload's notes after the stored ones, and every other step leaves the
\* notes as they are.
C10_NotesGrowBetweenClears ==
    [][IF DispatchStep /\ fx'.typehint = "ClearAllScalaNotesEvent"
       THEN notes' = <<>>
       ELSE IF DispatchStep /\ fx'.typehint = "NewScalaNotesEvent"
       THEN /\ Len(notes') = Len(notes) + Len(fx'.payload.notes)
            /\ SubSeq(notes', 1, Len(notes)) = notes
            /\ \A i \in 1..Len(fx'.payload.notes) :
                  notes'[Len(notes) + i] = Note(fx'.payload.notes[i])
       ELSE notes' = notes
      ]_vars

\* C10 witness: a second NewScalaNotesEvent added its notes to stored ones.
C10_Witness ==
    /\ fx.op = "handle_incoming_response"
    /\ fx.typehint = "NewScalaNotesEvent"
    /\ Len(notes) > Len(fx.payload.notes)

\* The names of an ImportSuggestions payload, flattened.
RECURSIVE flat_names(_)
flat_names(symLists) ==
    IF symLists = <<>> THEN {}
    ELSE {Head(symLists)[i].name : i \in 1..Len(Head(symLists))} \cup flat_names(Tail(symLists))

\* C11: the import panel shows the flattened names, '$' replaced, without
\* duplicates and in increasing order; the names "scala.util.Random$" (twice)
\* and "java.util.List$" are shown as exactly "java.util.List",
\* "scala.util.Random"; when no name is left the handler reports that no
\* import suggestions were found and schedules no panel.
C11_ImportsPresented ==
    [][(DispatchStep /\ fx'.typehint = "ImportSuggestions") =>
         LET names == flat_names(fx'.payload.symLists)
         IN  IF names = {}
             THEN /\ fx'.error = << <<"No import suggestions found.">> >>
                  /\ timers' = timers
             ELSE /\ Len(timers') = Len(timers) + 1
                  /\ LET items == timers'[Len(timers')].cb.items
                     IN  /\ timers'[Len(timers')].cb.fn = "show_quick_panel"
                         /\ \A i \in 1..(Len(items) - 1) : str_less(items[i], items[i + 1])
                         /\ Len(items) <= Cardinality(names)
                         /\ fx'.payload = ImportExample =>
                               items = <<java_util_List, scala_util_Random>>
      ]_vars

\* The positions of a piece in a text.
positions(text, piece) == {p \in 1..Len(text) : text[p] = piece}

\* The j-th smallest element of a set of positions.
nth(P, j) == CHOOSE p \in P : Cardinality({q \in P : q < p}) = j - 1

\* The placeholder indices of an insertion snippet, left to right; an index is
\* the piece after "${".
placeholder_indices(text) ==
    LET P == positions(text, "${")
    IN  [j \in 1..Cardinality(P) |-> text[nth(P, j) + 1]]

\* The parenthesized groups of an insertion snippet, each as the number of
\* placeholders in it.
placeholder_groups(text) ==
    LET opening == positions(text, "(")
        closing == positions(text, ")")
        P == positions(text, "${")
    IN  IF Cardinality(opening) # Cardinality(closing) THEN <<-1>>
        ELSE [k \in 1..Cardinality(opening) |->
                 Cardinality({p \in P : nth(opening, k) < p /\ p < nth(closing, k)})]

\* The number of positions of P up to p: p is the rank-th of P.
rank(P, p) == Cardinality({q \in P : q <= p})

\* The snippet has one parenthesized group per section, one after the other,
\* the k-th holding as many placeholders as the k-th section has parameters,
\* every placeholder lies in a group, and the j-th placeholder from the left
\* has the index j.
numbered_across(text, sections) ==
    LET opening == positions(text, "(")
        closing == positions(text, ")")
        P == positions(text, "${")
    IN  /\ Cardinality(opening) = Len(sections)
        /\ Cardinality(closing) = Len(sections)
        /\ \A o \in opening :
              \E c \in closing :
                 /\ rank(closing, c) = rank(opening, o)
                 /\ o < c
                 /\ \A o2 \in opening : o2 > o => o2 > c
                 /\ Cardinality({p \in P : o < p /\ p < c}) =
                       Len(sections[rank(opening, o)].params)
        /\ \A p \in P :
              /\ text[p + 1] = ToString(rank(P, p))
              /\ \E o \in opening, c \in closing :
                    rank(closing, c) = rank(opening, o) /\ o < p /\ p < c

\* C12: for a method type with k parameter sections the insertion snippet has
\* exactly k parenthesized groups, the i-th with as many placeholders as the
\* i-th section has parameters (none for an empty section), and the
\* placeholder indices read left to right are 1, 2, ... up to the total
\* number of parameters; the snippet a completion response stores for the
\* method is its name followed by these groups.
C12_PlaceholdersNumberedAcrossSections ==
    [][(DispatchStep /\ fx'.typehint = "CompletionInfoList") =>
         \A c \in 1..Len(fx'.payload.completions) :
            LET typeInfo == fx'.payload.completions[c].typeInfo
            IN  ~is_basic_type(typeInfo) =>
                  LET sections == typeInfo.paramSections
                      snippet == formatted_insertion_params(typeInfo)
                  IN  /\ numbered_across(snippet, sections)
                      /\ Len(sections) > 0 =>
                            suggestions'[c][2] = <<fx'.payload.completions[c].name>> \o snippet
      ]_vars

\* C12 witness: the snippet stored for a method with sections of 2, 0 and 3
\* parameters has the indices 1 to 5.
C12_Witness ==
    /\ fx.op = "handle_incoming_response"
    /\ fx.typehint = "CompletionInfoList"
    /\ Len(suggestions) = 1
    /\ placeholder_groups(Tail(suggestions[1][2])) = <<2, 0, 3>>
    /\ placeholder_indices(Tail(suggestions[1][2])) = <<"1", "2", "3", "4", "5">>

\* "typeInfo" in c
has_typeInfo(c) == "typeInfo" \in DOMAIN c

\* A completion response is handled on the authoritative path: its prefix is
\* not the one being tracked.
Authoritative ==
    /\ DispatchStep
    /\ fx'.typehint = "CompletionInfoList"
    /\ ~(current_prefix # "None" /\ current_prefix = get(fx'.payload, "prefix", "None"))

\* C13: on the authoritative path the stored suggestions are, in input order,
\* one per completion that has a typeInfo and none for a completion without;
\* the insertion snippet of a completion whose typeInfo is basic or has no
\* parameter section is its bare name.
C13_CompletionsFiltered ==
    [][Authoritative =>
         LET kept == SelectSeq(fx'.payload.completions, has_typeInfo)
         IN  /\ Len(suggestions') = Len(kept)
             /\ \A i \in 1..Len(kept) :
                   /\ suggestions'[i][1][1] = kept[i].name
                   /\ suggestions'[i] = completion_to_suggest(kept[i])
                   /\ (\/ is_basic_type(kept[i].typeInfo)
                       \/ Len(kept[i].typeInfo.paramSections) = 0) =>
                         suggestions'[i][2] = <<kept[i].name>>
      ]_vars

\* C13 witness: of three completions the one without typeInfo was left out,
\* and the value's snippet is its name.
C13_Witness ==
    /\ fx.op = "handle_incoming_response"
    /\ fx.typehint = "CompletionInfoList"
    /\ Len(fx.payload.completions) = 3
    /\ ~has_typeInfo(fx.payload.completions[2])
    /\ Len(suggestions) = 2
    /\ suggestions[2][2] = <<"fox">>
    /\ suggestions[1][1][1] = "foo"

LocationTags == {"SymbolSearchResults", "SourcePositions", "HierarchyInfo"}

\* The positions of the entries of a location response, in input order; a
\* symbol without a position has none.
entry_positions(payload) ==
    CASE payload.typehint = "SymbolSearchResults" ->
             LET with_pos == SelectSeq(payload.syms, has_pos)
             IN  [i \in 1..Len(with_pos) |-> with_pos[i].pos]
      [] payload.typehint = "SourcePositions" ->
             [i \in 1..Len(payload.positions) |-> payload.positions[i].position]
      [] OTHER ->
             [i \in 1..Len(payload.inheritors) |-> payload.inheritors[i].sourcePosition]

\* The row shows the "path | Line N" of the position.
shows(item, pos) == item[2] = file_and_line_info(path_to_display(pos.file), pos.line)

\* C14: the panel a symbol search, usages or hierarchy response schedules has
\* as many rows as jump targets, one of each per input entry that has a
\* position, in input order, the i-th row showing the file and line of the
\* i-th target; choosing row i opens the file and line of the entry shown at
\* row i, and cancelling (index -1) opens nothing.
C14_LabelsAndTargetsParallel ==
    [][/\ (/\ DispatchStep
           /\ fx'.typehint \in LocationTags
           /\ (fx'.typehint = "SymbolSearchResults" \/ entry_positions(fx'.payload) # <<>>)) =>
             LET entries == entry_positions(fx'.payload)
                 panel == timers'[Len(timers')].cb
             IN  /\ Len(timers') = Len(timers) + 1
                 /\ panel.fn = "show_quick_panel"
                 /\ Len(panel.items) = Len(entries)
                 /\ Len(panel.location_list) = Len(entries)
                 /\ \A i \in 1..Len(entries) :
                       /\ panel.location_list[i] = <<entries[i].file, entries[i].line>>
                       /\ shows(panel.items[i], entries[i])
       /\ (fx'.op = "open_item" /\ Len(panels') = Len(panels) - 1) =>
             \E k \in 1..Len(panels) :
                /\ panels' = remove_at(panels, k)
                /\ panels[k].on_select = "open_item"
                /\ IF fx'.choice = -1 THEN fx'.editor = <<>>
                   ELSE LET loc == panels[k].location_list[fx'.choice + 1]
                        IN  /\ fx'.editor = << <<"open_and_scroll", loc[1], loc[2]>> >>
                            /\ shows(panels[k].items[fx'.choice + 1],
                                     [file |-> loc[1], line |-> loc[2]])
      ]_vars

\* C14 witness: the second row of a symbol search panel, the entry after one
\* without a position, was chosen and opened that entry's file and line.
C14_Witness ==
    /\ fx.op = "open_item"
    /\ fx.choice = 1
    /\ fx.editor = << <<"open_and_scroll", FileA, 7>> >>

\* C15: a RefactorDiffEffect of a supported type ends in exactly one of two
\* reported outcomes: success (the patch applied, a reload of
\* refactorings[procedureId] scheduled, the status "Refactoring succeeded") or
\* failure (one status message naming the diff, no reload scheduled); a diff
\* that does not parse and a patch that does not apply are both failures.
C15_RefactorOutcomeReported ==
    [][(/\ DispatchStep
        /\ fx'.typehint = "RefactorDiffEffect"
        /\ fx'.payload.refactorType.typehint \in supported_refactorings) =>
          LET diff_file == fx'.payload.diff
              patch_set == fromfile(diff_file)
              ok == patch_set # <<>> /\ patch_set_apply(patch_set, 0, <<>>)
          IN  IF ok
              THEN /\ Len(fx'.applied) = 1
                   /\ timers' = Append(timers,
                          [cb |-> [fn |-> "reload_file",
                                   file |-> refactorings[fx'.payload.procedureId]],
                           delay |-> 0])
                   /\ fx'.status = << <<"Refactoring succeeded">> >>
              ELSE /\ fx'.status = << <<"Refactor failed", diff_file>> >>
                   /\ timers' = timers
      ]_vars

\* A continuation of a scroll-wait is scheduled.
ScrollWaiting == \E i \in 1..Len(timers) : timers[i].cb.fn = "_scroll_once_loaded"

\* C16: the scroll-wait of a SymbolInfo response terminates.  A run of its
\* continuation either reschedules itself once, with one attempt less and
\* only while attempts are left, or ends: Ready (the view scrolled once,
\* nothing logged) or Abandoned (not scrolled, one log entry), with no further
\* continuation scheduled; the attempts stay within 0..10, so it reschedules
\* itself at most 10 times; and whenever a continuation is waiting, later
\* none is.
C16_ScrollWaitTerminates ==
    /\ [][fx'.op = "_scroll_once_loaded" =>
             \E i \in 1..Len(timers) :
                LET cb == timers[i].cb
                    rest == remove_at(timers, i)
                IN  /\ cb.fn = "_scroll_once_loaded"
                    /\ \/ /\ cb.attempts > 0
                          /\ timers' = Append(rest, [cb |-> [cb EXCEPT !.attempts = @ - 1],
                                                     delay |-> ScrollDelay])
                          /\ fx'.editor = <<>> /\ fx'.log = <<>>
                       \/ /\ timers' = rest
                          /\ Len(fx'.editor) = 1 /\ fx'.editor[1][1] = "scroll"
                          /\ fx'.log = <<>>
                       \/ /\ timers' = rest
                          /\ fx'.editor = <<>>
                          /\ Len(fx'.log) = 1
         ]_vars
    /\ [](\A i \in 1..Len(timers) :
             timers[i].cb.fn = "_scroll_once_loaded" =>
                timers[i].cb.attempts \in 0..ScrollAttempts)
    /\ (ScrollWaiting ~> ~ScrollWaiting)

\* C16 witness: a scroll-wait was abandoned because the view was still
\* loading when the attempts had run out.
C16_Witness ==
    /\ fx.op = "_scroll_once_loaded"
    /\ fx.log = << <<"debug", "Scrolling failed as the view didn't get ready in time.">> >>
    /\ fx.editor = <<>>
    /\ ~ScrollWaiting

\* The scroll-wait continuations scheduled.
scroll_waits == {i \in 1..Len(timers) : timers[i].cb.fn = "_scroll_once_loaded"}

\* The calls of editor.scroll among the calls a step made to the editor.
scrolls(f) == {i \in 1..Len(f.editor) : f.editor[i][1] = "scroll"}

\* C17: for a file that had to be opened, the response itself does not
\* scroll and schedules one scroll-wait; a run of its continuation scrolls at
\* most once, only when the view's last answer in that run was "not
\* loading", only for a position that has a line or an offset, and the run
\* that scrolls ends the wait, so there is at most one scroll per response.
C17_ScrollOnlyWhenLoaded ==
    [][/\ (DispatchStep /\ fx'.typehint = "SymbolInfo") =>
             /\ scrolls(fx') = {}
             /\ Len(timers') <= Len(timers) + 1
       /\ fx'.op = "_scroll_once_loaded" =>
             /\ Cardinality(scrolls(fx')) <= 1
             /\ (fx'.asked # <<>> /\ fx'.asked[Len(fx'.asked)]) => scrolls(fx') = {}
             /\ scrolls(fx') # {} =>
                   /\ fx'.asked # <<>> /\ ~fx'.asked[Len(fx'.asked)]
                   /\ \E i \in scroll_waits :
                         /\ timers' = remove_at(timers, i)
                         /\ fx'.editor[1][2] = timers[i].cb.view
                         /\ ~(falsy(timers[i].cb.pos, "line")
                              /\ falsy(timers[i].cb.pos, "offset"))
             /\ (\A i \in scroll_waits :
                    falsy(timers[i].cb.pos, "line") /\ falsy(timers[i].cb.pos, "offset")) =>
                   scrolls(fx') = {}
      ]_vars

\* C17 witness: the view was scrolled by a continuation that had no attempt
\* left, found the view loading at first and loaded when it asked again.
C17_Witness ==
    /\ fx.op = "_scroll_once_loaded"
    /\ fx.asked = <<TRUE, FALSE>>
    /\ scrolls(fx) = {1}

\* C18: a SymbolInfo response without a declaration position, or whose
\* declaration position has no file, shows the user exactly one error message
\* and stops: no view is looked up or opened, nothing is scheduled, nothing
\* scrolls, nothing is raised, and server_version, the readiness flags, the
\* notes and call_options stay as they were.
C18_MissingPositionReported ==
    [][(/\ DispatchStep
        /\ fx'.typehint = "SymbolInfo"
        /\ \/ "declPos" \notin DOMAIN fx'.payload
           \/ "file" \notin DOMAIN fx'.payload.declPos) =>
          /\ Len(fx'.error) = 1
          /\ fx'.status = <<>>
          /\ fx'.editor = <<>>
          /\ fx'.raised = "none"
          /\ timers' = timers
          /\ UNCHANGED <<core, current_prefix, suggestions, panels>>
      ]_vars

\* C18 witness: a SymbolInfo whose declaration position has no file was
\* reported while the scroll-wait of an earlier response was still scheduled.
C18_Witness ==
    /\ fx.op = "handle_incoming_response"
    /\ fx.typehint = "SymbolInfo"
    /\ "declPos" \in DOMAIN fx.payload
    /\ "file" \notin DOMAIN fx.payload.declPos
    /\ fx.error = << <<"Couldn't find the file where it's defined.">> >>
    /\ ScrollWaiting

\* The suggestions of the completions that have a typeInfo.
filtered(completions) ==
    LET kept == SelectSeq(completions, has_typeInfo)
    IN  [i \in 1..Len(kept) |-> completion_to_suggest(kept[i])]

hack2_timer == [cb |-> [fn |-> "hack2"], delay |-> 1]

\* C19: the filtered completions of every CompletionInfoList response become
\* the active suggestions.  A response whose prefix is not the tracked one is
\* stored at once.  For a response whose prefix is the tracked one, when its
\* refresh runs with that prefix still tracked: if the popup is showing the
\* popup is closed, the suggestions replaced and a reopening scheduled; if the
\* popup is not showing the response is stored as the active suggestions.
C19_EveryResponseStored ==
    [][/\ Authoritative =>
             /\ suggestions' = filtered(fx'.payload.completions)
             /\ current_prefix' = get(fx'.payload, "prefix", "None")
       /\ fx'.op = "_hack" =>
             \E i \in 1..Len(timers) :
                LET cb == timers[i].cb
                IN  /\ cb.fn = "_hack"
                    /\ SubSeq(timers', 1, Len(timers) - 1) = remove_at(timers, i)
                    /\ current_prefix = cb.prefix =>
                          /\ suggestions' = filtered(cb.completions)
                          /\ fx'.asked = <<TRUE>> =>
                                /\ fx'.editor = << <<"hide_auto_complete">> >>
                                /\ timers' = Append(remove_at(timers, i), hack2_timer)
      ]_vars

C21_ImportForOriginatingFile ==
    [][ImportSelectStep =>
         \E k \in 1..Len(panels) :
            /\ panels' = remove_at(panels, k)
            /\ panels[k].on_select = "do_refactor"
            /\ fx'.raised = "none"
            /\ IF fx'.choice > -1
               THEN fx'.sent = << [req |-> "AddImportRefactorDesc",
                                   file_name |-> ImportOptions.file_name,
                                   import |-> panels[k].items[fx'.choice + 1],
                                   async |-> TRUE] >>
               ELSE fx'.sent = <<>>
      ]_vars

\* C22: NewJavaNotesEvent appends the notes of its payload after the stored
\* notes, as NewScalaNotesEvent does.
C22_JavaNotesAppended ==
    [][(DispatchStep /\ fx'.typehint = "NewJavaNotesEvent") =>
         /\ Len(notes') = Len(notes) + Len(fx'.payload.notes)
         /\ SubSeq(notes', 1, Len(notes)) = notes
         /\ \A i \in 1..Len(fx'.payload.notes) :
               notes'[Len(notes) + i] = Note(fx'.payload.notes[i])
      ]_vars

====
